---- MODULE Spec2Model ----
(***************************************************************************)
(* Model of render_gl/shader.rs: Shader and Program construction on top of *)
(* a stateful OpenGL driver, uniform reflection, the float uniform setter  *)
(* and the Drop implementations that release the GPU handles.              *)
(*                                                                         *)
(* Text is modelled as sequences of one-character strings; NUL is the zero *)
(* byte.  GL object names are modelled by creation order (the n-th object  *)
(* the driver creates has name n), so a name is never reused.              *)
(***************************************************************************)
EXTENDS Integers, Sequences, FiniteSets, TLC

\* ---------------------------------------------------------------- bounds
MaxObjects == 3          \* GL objects (shaders and programs) ever created

\* ------------------------------------------------------ program constants
VERTEX_SHADER == 35633   \* gl::VERTEX_SHADER   0x8B31
FRAGMENT_SHADER == 35632 \* gl::FRAGMENT_SHADER 0x8B30
FLOAT == 5126            \* gl::FLOAT           0x1406
FLOAT_VEC4 == 35666      \* gl::FLOAT_VEC4      0x8B52
NameBufLen == 256        \* create_whitespace_cstring_with_len(256)
NameBufSize == 255       \* bufSize handed to GetActiveUniform

NUL == "NUL"
SP == " "

Min(a, b) == IF a < b THEN a ELSE b

\* ------------------------------------------------------------ text helpers
\* fn create_whitespace_cstring_with_len: len spaces, then the terminator
\* that CString::from_vec_unchecked appends.  The value is the whole
\* allocation (len + 1 bytes).
create_whitespace_cstring_with_len(len) ==
    [i \in 1..(len + 1) |-> IF i <= len THEN SP ELSE NUL]

\* CStr::to_bytes / to_str / to_string_lossy on a CString: the stored length
\* decides, not the first NUL; every byte but the last one is content.
to_bytes(cstring) == SubSeq(cstring, 1, Len(cstring) - 1)

\* What a C reader of the pointer sees: the characters before the first NUL.
RECURSIVE CStrFrom(_, _)
CStrFrom(buf, i) ==
    IF i > Len(buf) \/ buf[i] = NUL THEN <<>>
    ELSE <<buf[i]>> \o CStrFrom(buf, i + 1)

CStrAt(buf) == CStrFrom(buf, 1)

\* The driver writing a string into a caller buffer of bufSize bytes
\* (GetShaderInfoLog, GetProgramInfoLog, GetActiveUniform): at most
\* bufSize - 1 characters and a terminating NUL; nothing when bufSize = 0.
DriverWrite(buf, text, bufSize) ==
    IF bufSize <= 0 THEN buf
    ELSE LET k == Min(Len(text), bufSize - 1)
         IN [i \in 1..Len(buf) |->
                IF i <= k THEN text[i]
                ELSE IF i = k + 1 THEN NUL
                ELSE buf[i]]

\* INFO_LOG_LENGTH as the driver reports it: the log's characters plus the
\* terminator, 0 when there is no log.
InfoLogLength(log) == IF Len(log) = 0 THEN 0 ELSE Len(log) + 1

\* The error string built on a failed compile or link: query the length,
\* allocate, let the driver fill the buffer, to_string_lossy().into_owned().
InfoLogString(log) ==
    LET len == InfoLogLength(log)
        error == create_whitespace_cstring_with_len(len)
    IN to_bytes(DriverWrite(error, log, len))

\* An ends_with that accepts the extension anywhere in the name.
ends_with_anywhere(name, ext) ==
    \E k \in 1..Len(name) :
        /\ k + Len(ext) - 1 <= Len(name)
        /\ SubSeq(name, k, k + Len(ext) - 1) = ext

\* str::ends_with
ends_with(name, ext) ==
    /\ Len(name) >= Len(ext)
    /\ SubSeq(name, Len(name) - Len(ext) + 1, Len(name)) = ext

EXT_VERT == <<".", "v", "e", "r", "t">>
EXT_FRAG == <<".", "f", "r", "a", "g">>

\* Shader::from_res POSSIBLE_EXT with Iterator::find: the first matching
\* entry's kind, 0 for None.
shader_kind(name) ==
    IF ends_with(name, EXT_VERT) THEN VERTEX_SHADER
    ELSE IF ends_with(name, EXT_FRAG) THEN FRAGMENT_SHADER
    ELSE 0

\* Program::from_res resource_names: format!("{}{}", name, ext) in order.
resource_names(name) == <<name \o EXT_VERT, name \o EXT_FRAG>>


\* ------------------------------------------------------------ input sets
\* Diagnostic logs the driver may produce (possibly empty).
Logs == { <<>>, <<"e", "r", "r">> }

U_TIME == <<"u", "_", "t", "i", "m", "e">>
U_COLOR == <<"u", "_", "c", "o", "l", "o", "r">>
U_FADE == <<"u", "_", "f", "a", "d", "e">>

\* Active-uniform lists a linked program may expose: name, declared type
\* and location, in enumeration order (none; a vec4, a float and a float
\* without a location).
UniformLists ==
    { <<>>,
      << [name |-> U_COLOR, typ |-> FLOAT_VEC4, loc |-> 0],
         [name |-> U_TIME, typ |-> FLOAT, loc |-> 1],
         [name |-> U_FADE, typ |-> FLOAT, loc |-> -1] >> }

\* A String holding a declared name, a NUL and spaces up to 256 bytes.
PaddedName(n) ==
    [i \in 1..NameBufLen |->
        IF i <= Len(n) THEN n[i] ELSE IF i = Len(n) + 1 THEN NUL ELSE SP]

\* Names a caller passes to uniform_loc.
LocNames == {U_TIME, U_COLOR}

\* Names a caller passes to set_uniform1f.
QueryNames ==
    {U_TIME, PaddedName(U_TIME), PaddedName(U_COLOR), PaddedName(U_FADE)}

\* Values a caller passes to set_uniform1f.
Values == {1}

BASIC == <<"b">>

\* Resource names handed to Shader::from_res.
ShaderNames ==
    { BASIC \o EXT_VERT, BASIC \o EXT_FRAG,
      BASIC \o <<".", "g", "e", "o", "m">>,
      BASIC \o EXT_VERT \o EXT_FRAG }

\* Base names handed to Program::from_res.
BaseNames == { <<"t", "r", "i">> }

\* What the driver answers to a compile: status and info log.
CompileOutcomes ==
    {[ok |-> TRUE, log |-> <<>>]} \cup {[ok |-> FALSE, log |-> l] : l \in Logs}

\* What the loader and the driver answer while one shader is built from a
\* resource: the load fails, or it succeeds and the source is compiled.
ShaderOutcomes ==
    {[loadOk |-> FALSE, compile |-> [ok |-> FALSE, log |-> <<>>]]}
    \cup {[loadOk |-> TRUE, compile |-> c] : c \in CompileOutcomes}

\* What the driver answers to a link: status, info log, active uniforms.
LinkOutcomes ==
    {[ok |-> TRUE, log |-> <<>>, uniforms |-> u] : u \in UniformLists}
    \cup {[ok |-> FALSE, log |-> l, uniforms |-> <<>>] : l \in Logs}

\* ------------------------------------------------------------------ state
VARIABLES
    objKind,          \* driver: "shader" or "program", per created object
    deleteCalls,      \* driver: DeleteShader/DeleteProgram calls per object
    attached,         \* driver: shaders attached to each program object
    linkStatus,       \* driver: LINK_STATUS / COMPILE_STATUS per object
    activeUniforms,   \* driver: active uniforms per linked program
    trace,            \* driver and loader calls made by the last operation
    droppedShaders,   \* Shader instances whose lifetime has ended
    shaders,          \* live Shader instances (by handle) the caller owns
    programs,         \* live Program instances: handle -> Uniform Table
    droppedPrograms,  \* Program instances whose lifetime has ended
    result,           \* what the last operation returned
    args,             \* the arguments of the last operation
    panicked          \* the thread panicked; the model follows it no further

driverVars == <<objKind, deleteCalls, attached, linkStatus,
                activeUniforms, trace, droppedShaders>>
vars == <<objKind, deleteCalls, attached, linkStatus,
          activeUniforms, trace, droppedShaders, shaders, programs,
          droppedPrograms, result, args, panicked>>

\* The driver-side state threaded through the functions below.
World == [objKind |-> objKind, deleteCalls |-> deleteCalls,
          attached |-> attached, linkStatus |-> linkStatus,
          activeUniforms |-> activeUniforms,
          trace |-> <<>>, droppedShaders |-> droppedShaders]

SetWorld(w) ==
    /\ objKind' = w.objKind
    /\ deleteCalls' = w.deleteCalls
    /\ attached' = w.attached
    /\ linkStatus' = w.linkStatus
    /\ activeUniforms' = w.activeUniforms
    /\ trace' = w.trace
    /\ droppedShaders' = w.droppedShaders

Call(c, a, b, s) == [call |-> c, a |-> a, b |-> b, s |-> s]

Log(w, calls) == [w EXCEPT !.trace = @ \o calls]

\* What an operation returned: the Ok value or the error's fields, plus the
\* GL object the operation concerned (obj) and the info log the driver held
\* for it when the operation failed (log).
Result(op, status, name, message, id, obj, log) ==
    [op |-> op, status |-> status, name |-> name, message |-> message,
     id |-> id, obj |-> obj, log |-> log]

EmptyTable == [k \in {} |-> [id |-> 0, typ |-> 0]]

\* ----------------------------------------------------------- driver calls
\* CreateShader / CreateProgram: a fresh object.
GlCreate(w, kind) ==
    [w EXCEPT !.objKind = Append(@, kind),
              !.deleteCalls = Append(@, 0),
              !.attached = Append(@, {}),
              !.linkStatus = Append(@, "none"),
              !.activeUniforms = Append(@, <<>>)]

\* CompileShader / LinkProgram: the driver records the status.
GlSetStatus(w, id, outcome) ==
    [w EXCEPT !.linkStatus[id] = IF outcome.ok THEN "ok" ELSE "failed"]

\* GetUniformLocation(id, name) on a program whose active uniforms are us:
\* the location of the active uniform with
\* that (C string) name, -1 when there is none.
GetUniformLocation(us, cname) ==
    LET hit == {i \in 1..Len(us) : us[i].name = cname}
    IN IF hit = {} THEN -1 ELSE us[CHOOSE i \in hit : TRUE].loc


\* ------------------------------------------------------------------ Shader
\* fn shader_from_source: create, source, compile, query status; on failure
\* fetch the log and return it.  The id is a bare GLuint here: no value
\* owns it until Shader::from_source wraps it.
shader_from_source(w, kind, compile) ==
    LET id == Len(w.objKind) + 1
        w1 == Log(GlSetStatus(GlCreate(w, "shader"), id, compile),
                  << Call("CreateShader", id, kind, <<>>),
                     Call("ShaderSource", id, 0, <<>>),
                     Call("CompileShader", id, 0, <<>>),
                     Call("GetShaderiv_COMPILE_STATUS", id, 0, <<>>) >>)
        w2 == Log(w1,
                  << Call("GetShaderiv_INFO_LOG_LENGTH", id, 0, <<>>),
                     Call("GetShaderInfoLog", id, InfoLogLength(compile.log), <<>>) >>)
    IN IF ~compile.ok
       THEN [w |-> w2, ok |-> FALSE, id |-> 0, obj |-> id,
             message |-> InfoLogString(compile.log), log |-> compile.log]
       ELSE [w |-> w1, ok |-> TRUE, id |-> id, obj |-> id, message |-> <<>>,
             log |-> <<>>]

\* Shader::from_source: Ok(Shader { id }) or the error string.
Shader_from_source(w, kind, compile) == shader_from_source(w, kind, compile)

\* A Drop for Shader that ends the lifetime without calling DeleteShader.
Shader_drop_no_delete(w, id) ==
    Log([w EXCEPT !.droppedShaders = @ \cup {id}], <<>>)

\* impl Drop for Shader
Shader_drop(w, id) ==
    Log([w EXCEPT !.deleteCalls[id] = @ + 1,
                  !.droppedShaders = @ \cup {id}],
        << Call("DeleteShader", id, 0, <<>>) >>)

\* A from_res that asks the loader before it looks at the suffix.
Shader_from_res_load_first(w, name, loadOk, compile) ==
    LET kind == shader_kind(name)
        w1 == Log(w, << Call("load_cstring", 0, 0, name) >>)
        r == Shader_from_source(w1, kind, compile)
    IN IF ~loadOk
       THEN [w |-> w1,
             res |-> Result("Shader::from_res", "ResourceLoad",
                            name, <<>>, 0, 0, <<>>)]
       ELSE IF kind = 0
       THEN [w |-> w1,
             res |-> Result("Shader::from_res",
                            "CanNotDetermineShaderTypeForResource",
                            name, <<>>, 0, 0, <<>>)]
       ELSE IF ~r.ok
       THEN [w |-> r.w,
             res |-> Result("Shader::from_res", "CompileError",
                            name, r.message, 0, r.obj, r.log)]
       ELSE [w |-> r.w,
             res |-> Result("Shader::from_res", "Ok", name, <<>>, r.id, r.obj,
                            <<>>)]

\* Shader::from_res: stage detection, resource load, compile.
Shader_from_res(w, name, loadOk, compile) ==
    LET kind == shader_kind(name)
        w1 == Log(w, << Call("load_cstring", 0, 0, name) >>)
        r == Shader_from_source(w1, kind, compile)
    IN IF kind = 0
       THEN [w |-> w,
             res |-> Result("Shader::from_res",
                            "CanNotDetermineShaderTypeForResource",
                            name, <<>>, 0, 0, <<>>)]
       ELSE IF ~loadOk
       THEN [w |-> w1,
             res |-> Result("Shader::from_res", "ResourceLoad",
                            name, <<>>, 0, 0, <<>>)]
       ELSE IF ~r.ok
       THEN [w |-> r.w,
             res |-> Result("Shader::from_res", "CompileError",
                            name, r.message, 0, r.obj, r.log)]
       ELSE [w |-> r.w,
             res |-> Result("Shader::from_res", "Ok", name, <<>>, r.id, r.obj,
                            <<>>)]

\* ----------------------------------------------------------------- Program
\* What GetActiveUniform leaves in the 256-space name buffer for the
\* active uniform au.
active_uniform_name(au) ==
    DriverWrite(create_whitespace_cstring_with_len(NameBufLen),
                au.name, NameBufSize)

\* One iteration of the loop in Program::get_uniforms for index u (0-based)
\* on a program whose active uniforms are us.
get_uniform_entry(us, u) ==
    LET name == active_uniform_name(us[u + 1])
        loc == GetUniformLocation(us, CStrAt(name))
    IN [key |-> to_bytes(name), uniform |-> [id |-> loc, typ |-> us[u + 1].typ]]

\* HashMap::insert
insert(table, key, value) ==
    [k \in (DOMAIN table) \cup {key} |-> IF k = key THEN value ELSE table[k]]

\* The loop of Program::get_uniforms from index u on.
RECURSIVE get_uniforms_from(_, _, _)
get_uniforms_from(us, u, uniforms) ==
    IF u >= Len(us) THEN uniforms
    ELSE LET e == get_uniform_entry(us, u)
         IN get_uniforms_from(us, u + 1, insert(uniforms, e.key, e.uniform))

\* The table get_uniforms builds, for every active-uniform list the driver
\* can report (evaluated once per list).
reflected == [us \in UniformLists |-> get_uniforms_from(us, 0, EmptyTable)]

\* The name GetUniformLocation is called with, per list and index.
reflected_names ==
    [us \in UniformLists |->
        [i \in 1..Len(us) |-> CStrAt(active_uniform_name(us[i]))]]

\* The driver queries get_uniforms issues from index u on, in order.
RECURSIVE get_uniforms_calls(_, _, _)
get_uniforms_calls(us, id, u) ==
    IF u >= Len(us) THEN <<>>
    ELSE << Call("GetActiveUniform", id, u, <<>>),
            Call("GetUniformLocation", id, 0, reflected_names[us][u + 1]) >>
         \o get_uniforms_calls(us, id, u + 1)

\* Program::get_uniforms
get_uniforms(w, id) ==
    LET us == w.activeUniforms[id]
    IN [w |-> Log(w, << Call("GetProgramiv_ACTIVE_UNIFORMS", id, 0, <<>>) >>
                     \o get_uniforms_calls(us, id, 0)),
        uniforms |-> reflected[us]]

\* AttachShader for every shader of the slice, in order.
RECURSIVE attach_all(_, _, _, _)
attach_all(w, pid, ids, i) ==
    IF i > Len(ids) THEN w
    ELSE attach_all(Log([w EXCEPT !.attached[pid] = @ \cup {ids[i]}],
                        << Call("AttachShader", pid, ids[i], <<>>) >>),
                    pid, ids, i + 1)

\* A detach loop that detaches nothing.
detach_none(w, pid, ids, i) == w

\* DetachShader for every shader of the slice, in order.
RECURSIVE detach_all(_, _, _, _)
detach_all(w, pid, ids, i) ==
    IF i > Len(ids) THEN w
    ELSE detach_all(Log([w EXCEPT !.attached[pid] = @ \ {ids[i]}],
                        << Call("DetachShader", pid, ids[i], <<>>) >>),
                    pid, ids, i + 1)

\* A from_shaders that never looks at the link status.
Program_from_shaders_unchecked(w, ids, link) ==
    LET pid == Len(w.objKind) + 1
        w1 == Log(GlCreate(w, "program"),
                  << Call("CreateProgram", pid, 0, <<>>) >>)
        w2 == attach_all(w1, pid, ids, 1)
        w3 == Log([GlSetStatus(w2, pid, link)
                      EXCEPT !.activeUniforms[pid] = link.uniforms],
                  << Call("LinkProgram", pid, 0, <<>>) >>)
        w4 == detach_all(w3, pid, ids, 1)
        g == get_uniforms(w4, pid)
    IN [w |-> g.w, ok |-> TRUE, id |-> pid, obj |-> pid,
        message |-> <<>>, log |-> <<>>, uniforms |-> g.uniforms]

\* Program::from_shaders
Program_from_shaders(w, ids, link) ==
    LET pid == Len(w.objKind) + 1
        w1 == Log(GlCreate(w, "program"),
                  << Call("CreateProgram", pid, 0, <<>>) >>)
        w2 == attach_all(w1, pid, ids, 1)
        w3 == Log([GlSetStatus(w2, pid, link)
                      EXCEPT !.activeUniforms[pid] = link.uniforms],
                  << Call("LinkProgram", pid, 0, <<>>),
                     Call("GetProgramiv_LINK_STATUS", pid, 0, <<>>) >>)
        wf == Log(w3,
                  << Call("GetProgramiv_INFO_LOG_LENGTH", pid, 0, <<>>),
                     Call("GetProgramInfoLog", pid, InfoLogLength(link.log), <<>>) >>)
        w4 == detach_all(w3, pid, ids, 1)
        g == get_uniforms(w4, pid)
    IN IF ~link.ok
       THEN [w |-> wf, ok |-> FALSE, id |-> 0, obj |-> pid,
             message |-> InfoLogString(link.log), log |-> link.log,
             uniforms |-> EmptyTable]
       ELSE [w |-> g.w, ok |-> TRUE, id |-> pid, obj |-> pid,
             message |-> <<>>, log |-> <<>>, uniforms |-> g.uniforms]

\* impl Drop for Program
Program_drop(w, id) ==
    Log([w EXCEPT !.deleteCalls[id] = @ + 1],
        << Call("DeleteProgram", id, 0, <<>>) >>)

\* A from_res that builds both shaders before it looks at either result.
Program_from_res_eager(w, name, loads, compiles, link) ==
    LET names == resource_names(name)
        s1 == Shader_from_res(w, names[1], loads[1], compiles[1])
        s2 == Shader_from_res(s1.w, names[2], loads[2], compiles[2])
        p == Program_from_shaders(s2.w, <<s1.res.id, s2.res.id>>, link)
        wd == Shader_drop(Shader_drop(p.w, s1.res.id), s2.res.id)
    IN IF s1.res.status # "Ok"
       THEN [w |-> IF s2.res.status = "Ok"
                   THEN Shader_drop(s2.w, s2.res.id) ELSE s2.w,
             uniforms |-> EmptyTable,
             res |-> [s1.res EXCEPT !.op = "Program::from_res"]]
       ELSE IF s2.res.status # "Ok"
       THEN [w |-> Shader_drop(s2.w, s1.res.id), uniforms |-> EmptyTable,
             res |-> [s2.res EXCEPT !.op = "Program::from_res"]]
       ELSE IF ~p.ok
       THEN [w |-> wd, uniforms |-> EmptyTable,
             res |-> Result("Program::from_res", "LinkError", name,
                            p.message, 0, p.obj, p.log)]
       ELSE [w |-> wd, uniforms |-> p.uniforms,
             res |-> Result("Program::from_res", "Ok", name, <<>>,
                            p.id, p.obj, <<>>)]

\* A from_res that forgets the first shader when the second one fails.
Program_from_res_leaking(w, name, loads, compiles, link) ==
    LET names == resource_names(name)
        s1 == Shader_from_res(w, names[1], loads[1], compiles[1])
        s2 == Shader_from_res(s1.w, names[2], loads[2], compiles[2])
        p == Program_from_shaders(s2.w, <<s1.res.id, s2.res.id>>, link)
        wd == Shader_drop(Shader_drop(p.w, s1.res.id), s2.res.id)
    IN IF s1.res.status # "Ok"
       THEN [w |-> s1.w, uniforms |-> EmptyTable,
             res |-> [s1.res EXCEPT !.op = "Program::from_res"]]
       ELSE IF s2.res.status # "Ok"
       THEN [w |-> s2.w, uniforms |-> EmptyTable,
             res |-> [s2.res EXCEPT !.op = "Program::from_res"]]
       ELSE IF ~p.ok
       THEN [w |-> wd, uniforms |-> EmptyTable,
             res |-> Result("Program::from_res", "LinkError", name,
                            p.message, 0, p.obj, p.log)]
       ELSE [w |-> wd, uniforms |-> p.uniforms,
             res |-> Result("Program::from_res", "Ok", name, <<>>,
                            p.id, p.obj, <<>>)]

\* Program::from_res: both shaders through Shader::from_res, collected into
\* a Result (the first Err stops the iteration and drops the shaders
\* collected so far), then from_shaders; the Vec<Shader> is dropped on
\* return.
Program_from_res(w, name, loads, compiles, link) ==
    LET names == resource_names(name)
        s1 == Shader_from_res(w, names[1], loads[1], compiles[1])
        s2 == Shader_from_res(s1.w, names[2], loads[2], compiles[2])
        p == Program_from_shaders(s2.w, <<s1.res.id, s2.res.id>>, link)
        wd == Shader_drop(Shader_drop(p.w, s1.res.id), s2.res.id)
    IN IF s1.res.status # "Ok"
       THEN [w |-> s1.w, uniforms |-> EmptyTable,
             res |-> [s1.res EXCEPT !.op = "Program::from_res"]]
       ELSE IF s2.res.status # "Ok"
       THEN [w |-> Shader_drop(s2.w, s1.res.id), uniforms |-> EmptyTable,
             res |-> [s2.res EXCEPT !.op = "Program::from_res"]]
       ELSE IF ~p.ok
       THEN [w |-> wd, uniforms |-> EmptyTable,
             res |-> Result("Program::from_res", "LinkError", name,
                            p.message, 0, p.obj, p.log)]
       ELSE [w |-> wd, uniforms |-> p.uniforms,
             res |-> Result("Program::from_res", "Ok", name, <<>>,
                            p.id, p.obj, <<>>)]


\* A set_uniform1f that adds an entry for a name it does not find.
set_uniform1f_inserting(w, uniforms, name, value) ==
    IF name \notin DOMAIN uniforms
    THEN [w |-> w, status |-> "Ok",
          uniforms |-> insert(uniforms, name, [id |-> -1, typ |-> FLOAT])]
    ELSE IF uniforms[name].typ = FLOAT
    THEN [w |-> Log(w, << Call("Uniform1f", uniforms[name].id, value, <<>>) >>),
          status |-> "Ok", uniforms |-> uniforms]
    ELSE [w |-> w, status |-> "Ok", uniforms |-> uniforms]

\* A set_uniform1f that uploads without looking at the declared type.
set_uniform1f_untyped(w, uniforms, name, value) ==
    IF name \notin DOMAIN uniforms
    THEN [w |-> w, status |-> "Panic", uniforms |-> uniforms]
    ELSE [w |-> Log(w, << Call("Uniform1f", uniforms[name].id, value, <<>>) >>),
          status |-> "Ok", uniforms |-> uniforms]

\* A set_uniform1f that treats a negative location as a failure.
set_uniform1f_checking_location(w, uniforms, name, value) ==
    IF name \notin DOMAIN uniforms
    THEN [w |-> w, status |-> "Panic", uniforms |-> uniforms]
    ELSE IF uniforms[name].typ = FLOAT /\ uniforms[name].id >= 0
    THEN [w |-> Log(w, << Call("Uniform1f", uniforms[name].id, value, <<>>) >>),
          status |-> "Ok", uniforms |-> uniforms]
    ELSE IF uniforms[name].typ = FLOAT
    THEN [w |-> w, status |-> "Err", uniforms |-> uniforms]
    ELSE [w |-> w, status |-> "Ok", uniforms |-> uniforms]

\* Program::set_uniform1f.  Indexing the HashMap with a missing key panics;
\* the Err built in the else branch is a discarded statement and the
\* function ends in Ok(()).  The result carries self.uniforms as the call
\* leaves it.
set_uniform1f(w, uniforms, name, value) ==
    IF name \notin DOMAIN uniforms
    THEN [w |-> w, status |-> "Panic", uniforms |-> uniforms]
    ELSE IF uniforms[name].typ = FLOAT
    THEN [w |-> Log(w, << Call("Uniform1f", uniforms[name].id, value, <<>>) >>),
          status |-> "Ok", uniforms |-> uniforms]
    ELSE [w |-> w, status |-> "Ok", uniforms |-> uniforms]

\* ------------------------------------------------------------- operations
Args(op, name, ids, kind, value, target) ==
    [op |-> op, name |-> name, ids |-> ids, kind |-> kind, value |-> value,
     target |-> target]

RECURSIVE SortedSeq(_)
SortedSeq(S) ==
    IF S = {} THEN <<>>
    ELSE LET m == CHOOSE x \in S : \A y \in S : x <= y
         IN <<m>> \o SortedSeq(S \ {m})

Init ==
    /\ objKind = <<>>
    /\ deleteCalls = <<>>
    /\ attached = <<>>
    /\ linkStatus = <<>>
    /\ activeUniforms = <<>>
    /\ trace = <<>>
    /\ droppedShaders = {}
    /\ shaders = {}
    /\ programs = EmptyTable
    /\ droppedPrograms = {}
    /\ result = Result("none", "Ok", <<>>, <<>>, 0, 0, <<>>)
    /\ args = Args("none", <<>>, <<>>, 0, 0, 0)
    /\ panicked = FALSE

CallShaderFromSource ==
    /\ ~panicked
    /\ Len(objKind) + 1 <= MaxObjects
    /\ \E kind \in {VERTEX_SHADER, FRAGMENT_SHADER}, compile \in CompileOutcomes :
          LET r == Shader_from_source(World, kind, compile)
          IN /\ SetWorld(r.w)
             /\ shaders' = IF r.ok THEN shaders \cup {r.id} ELSE shaders
             /\ result' = Result("Shader::from_source",
                                 IF r.ok THEN "Ok" ELSE "Err",
                                 <<>>, r.message, r.id, r.obj, r.log)
             /\ args' = Args("Shader::from_source", <<>>, <<>>, kind, 0, 0)
    /\ UNCHANGED <<programs, droppedPrograms, panicked>>

CallShaderFromRes ==
    /\ ~panicked
    /\ Len(objKind) + 1 <= MaxObjects
    /\ \E name \in ShaderNames, o \in ShaderOutcomes :
          LET r == Shader_from_res(World, name, o.loadOk, o.compile)
          IN /\ SetWorld(r.w)
             /\ shaders' = IF r.res.status = "Ok"
                           THEN shaders \cup {r.res.id} ELSE shaders
             /\ result' = r.res
             /\ args' = Args("Shader::from_res", name, <<>>, 0, 0, 0)
    /\ UNCHANGED <<programs, droppedPrograms, panicked>>

CallProgramFromShaders ==
    /\ ~panicked
    /\ Len(objKind) + 1 <= MaxObjects
    /\ \E S \in SUBSET shaders, link \in LinkOutcomes :
          LET ids == SortedSeq(S)
              r == Program_from_shaders(World, ids, link)
          IN /\ SetWorld(r.w)
             /\ programs' = IF r.ok THEN insert(programs, r.id, r.uniforms)
                            ELSE programs
             /\ result' = Result("Program::from_shaders",
                                 IF r.ok THEN "Ok" ELSE "Err",
                                 <<>>, r.message, r.id, r.obj, r.log)
             /\ args' = Args("Program::from_shaders", <<>>, ids, 0, 0, 0)
    /\ UNCHANGED <<shaders, droppedPrograms, panicked>>

CallProgramFromRes ==
    /\ ~panicked
    /\ Len(objKind) + 3 <= MaxObjects
    /\ \E name \in BaseNames, o1 \in ShaderOutcomes, o2 \in ShaderOutcomes,
          link \in LinkOutcomes :
          LET r == Program_from_res(World, name, <<o1.loadOk, o2.loadOk>>,
                                    <<o1.compile, o2.compile>>, link)
          IN /\ SetWorld(r.w)
             /\ programs' = IF r.res.status = "Ok"
                            THEN insert(programs, r.res.id, r.uniforms)
                            ELSE programs
             /\ result' = r.res
             /\ args' = Args("Program::from_res", name, <<>>, 0, 0, 0)
    /\ UNCHANGED <<shaders, droppedPrograms, panicked>>

\* Program::id
CallId ==
    /\ ~panicked
    /\ \E p \in DOMAIN programs :
          /\ result' = Result("Program::id", "Ok", <<>>, <<>>, p, p, <<>>)
          /\ args' = Args("Program::id", <<>>, <<>>, 0, 0, p)
    /\ trace' = <<>>
    /\ UNCHANGED <<objKind, deleteCalls, attached, linkStatus,
                   activeUniforms, droppedShaders, shaders, programs,
                   droppedPrograms, panicked>>

\* Program::set_used
CallSetUsed ==
    /\ ~panicked
    /\ \E p \in DOMAIN programs :
          /\ trace' = << Call("UseProgram", p, 0, <<>>) >>
          /\ result' = Result("Program::set_used", "Ok", <<>>, <<>>, 0, p, <<>>)
          /\ args' = Args("Program::set_used", <<>>, <<>>, 0, 0, p)
    /\ UNCHANGED <<objKind, deleteCalls, attached, linkStatus,
                   activeUniforms, droppedShaders, shaders, programs,
                   droppedPrograms, panicked>>

\* Program::uniform_loc
CallUniformLoc ==
    /\ ~panicked
    /\ \E p \in DOMAIN programs, name \in LocNames :
          /\ trace' = << Call("GetUniformLocation", p, 0, CStrAt(name)) >>
          /\ result' = Result("Program::uniform_loc", "Ok", name, <<>>,
                              GetUniformLocation(activeUniforms[p], CStrAt(name)),
                              p,
                              <<>>)
          /\ args' = Args("Program::uniform_loc", name, <<>>, 0, 0, p)
    /\ UNCHANGED <<objKind, deleteCalls, attached, linkStatus,
                   activeUniforms, droppedShaders, shaders, programs,
                   droppedPrograms, panicked>>

CallSetUniform1f ==
    /\ ~panicked
    /\ \E p \in DOMAIN programs, name \in QueryNames, value \in Values :
          LET r == set_uniform1f(World, programs[p], name, value)
          IN /\ SetWorld(r.w)
             /\ panicked' = (r.status = "Panic")
             /\ programs' = [programs EXCEPT ![p] = r.uniforms]
             /\ result' = Result("Program::set_uniform1f", r.status, name,
                                 <<>>, 0, p, <<>>)
             /\ args' = Args("Program::set_uniform1f", name, <<>>, 0, value, p)
    /\ UNCHANGED <<shaders, droppedPrograms>>

\* A Shader the caller owns goes out of scope.
DropShader ==
    /\ ~panicked
    /\ \E s \in shaders :
       /\ SetWorld(Shader_drop(World, s))
       /\ shaders' = shaders \ {s}
       /\ result' = Result("Shader::drop", "Ok", <<>>, <<>>, 0, s, <<>>)
       /\ args' = Args("Shader::drop", <<>>, <<>>, 0, 0, s)
       /\ UNCHANGED <<programs, droppedPrograms, panicked>>

\* A Program the caller owns goes out of scope.
DropProgram ==
    /\ ~panicked
    /\ \E p \in DOMAIN programs :
       /\ SetWorld(Program_drop(World, p))
       /\ programs' = [q \in (DOMAIN programs) \ {p} |-> programs[q]]
       /\ droppedPrograms' = droppedPrograms \cup {p}
       /\ result' = Result("Program::drop", "Ok", <<>>, <<>>, 0, p, <<>>)
       /\ args' = Args("Program::drop", <<>>, <<>>, 0, 0, p)
       /\ UNCHANGED <<shaders, panicked>>

Next ==
    \/ CallShaderFromSource
    \/ CallShaderFromRes
    \/ CallProgramFromShaders
    \/ CallProgramFromRes
    \/ CallId
    \/ CallSetUsed
    \/ CallUniformLoc
    \/ CallSetUniform1f
    \/ DropShader
    \/ DropProgram

Spec == Init /\ [][Next]_vars


\* ------------------------------------------------------------- properties
Created == 1..Len(objKind)

\* GL objects owned by an instance, live or already dropped.
ShaderInstances == shaders \cup droppedShaders
ProgramInstances == (DOMAIN programs) \cup droppedPrograms

\* Positions of the calls of one kind in the last operation's trace.
Calls(c) == {i \in 1..Len(trace) : trace[i].call = c}

\* C1: every GL object created by a construction that failed (an object no
\* Shader or Program instance ever owned) has been deleted.
C1_FailedConstructionReleased ==
    \A id \in Created :
        id \notin (ShaderInstances \cup ProgramInstances)
            => deleteCalls[id] >= 1

\* C2: set_uniform1f on an entry whose declared type is not FLOAT returns
\* an error, never success.
C2_TypeMismatchIsError ==
    (/\ result.op = "Program::set_uniform1f"
     /\ args.target \in DOMAIN programs
     /\ args.name \in DOMAIN programs[args.target]
     /\ programs[args.target][args.name].typ # FLOAT)
        => result.status = "UniformTypeMismatch"

\* C3: set_uniform1f with a name that is not a key of the table returns
\* UnknownUniform, uploads nothing and does not panic.
C3_UnknownUniformIsError ==
    (/\ result.op = "Program::set_uniform1f"
     /\ args.target \in DOMAIN programs
     /\ args.name \notin DOMAIN programs[args.target])
        => /\ result.status = "UnknownUniform"
           /\ Calls("Uniform1f") = {}
           /\ ~panicked

\* C4: the table of a constructed Program has exactly the declared names of
\* the driver's active uniforms as keys, each holding that uniform's
\* location and declared type.
C4_TableKeyedByDeclaredName ==
    \A p \in DOMAIN programs :
        LET us == activeUniforms[p]
        IN /\ DOMAIN programs[p] = {us[i].name : i \in 1..Len(us)}
           /\ \A i \in 1..Len(us) :
                 /\ us[i].name \in DOMAIN programs[p]
                 /\ programs[p][us[i].name] = [id |-> us[i].loc, typ |-> us[i].typ]

\* C5: the handle of a live Shader or Program has never been deleted, and
\* the handle of one whose lifetime ended has been deleted exactly once,
\* whether or not the shader was ever attached to a program.
C5_DeletedExactlyOnce ==
    /\ \A id \in shaders \cup DOMAIN programs : deleteCalls[id] = 0
    /\ \A id \in droppedShaders \cup droppedPrograms : deleteCalls[id] = 1
    /\ droppedShaders \cap shaders = {}
    /\ droppedPrograms \cap DOMAIN programs = {}

\* C5 witness: after Program::from_res built and dropped two shaders that
\* were attached, the Program it returned has been dropped as well.
C5_Witness ==
    /\ result.op = "Program::drop"
    /\ droppedPrograms # {}
    /\ Cardinality(droppedShaders) >= 2

\* C5 witness for a shader that was never attached: it has been dropped and
\* no program object was ever created.
C5_WitnessNeverAttached ==
    /\ droppedShaders # {}
    /\ \A id \in Created : objKind[id] = "shader"


\* name = prefix \o ext for some prefix.
HasSuffix(name, ext) ==
    \E k \in 0..Len(name) : name = SubSeq(name, 1, k) \o ext

\* The stages CreateShader was called with in the last operation.
CreatedStages == {trace[i].b : i \in Calls("CreateShader")}

DOT_VERT == <<".", "v", "e", "r", "t">>
DOT_FRAG == <<".", "f", "r", "a", "g">>

\* C6: Shader::from_res compiles a name ending in ".vert" as a vertex
\* shader and a name ending in ".frag" as a fragment shader, and fails with
\* CanNotDetermineShaderTypeForResource carrying the name, creating no
\* shader, for a name ending in neither.
C6_StageFromSuffix ==
    result.op = "Shader::from_res" =>
        LET n == args.name
            compiled == result.status \in {"Ok", "CompileError"}
        IN /\ HasSuffix(n, DOT_VERT) =>
                /\ result.status # "CanNotDetermineShaderTypeForResource"
                /\ CreatedStages = IF compiled THEN {VERTEX_SHADER} ELSE {}
           /\ HasSuffix(n, DOT_FRAG) =>
                /\ result.status # "CanNotDetermineShaderTypeForResource"
                /\ CreatedStages = IF compiled THEN {FRAGMENT_SHADER} ELSE {}
           /\ (~HasSuffix(n, DOT_VERT) /\ ~HasSuffix(n, DOT_FRAG)) =>
                /\ result.status = "CanNotDetermineShaderTypeForResource"
                /\ result.name = n
                /\ CreatedStages = {}
                /\ Calls("load_cstring") = {}

\* C6 witness: a name that contains ".vert" but ends in ".frag" was
\* compiled successfully.
C6_Witness ==
    /\ result.op = "Shader::from_res"
    /\ result.status = "Ok"
    /\ args.name = <<"b">> \o DOT_VERT \o DOT_FRAG

IsLoad(c) == c.call = "load_cstring"

\* The resource names the last operation asked the loader for, in order.
LoadedNames ==
    LET loads == SelectSeq(trace, IsLoad)
    IN [i \in 1..Len(loads) |-> loads[i].s]

\* C7: Program::from_res resolves name.vert then name.frag and stops at the
\* first failure: after a failure of the first shader the second is neither
\* loaded nor compiled, after a failure of either shader no program object
\* is created and nothing is linked, and a link failure is a LinkError with
\* the base name and the driver's message.
C7_FromResPropagatesFirstFailure ==
    result.op = "Program::from_res" =>
        LET vert == args.name \o DOT_VERT
            frag == args.name \o DOT_FRAG
            shaderFailed == result.status \in {"ResourceLoad", "CompileError"}
        IN /\ LoadedNames \in {<<vert>>, <<vert, frag>>}
           /\ result.status \in {"Ok", "ResourceLoad", "CompileError", "LinkError"}
           /\ shaderFailed =>
                /\ result.name \in {vert, frag}
                /\ Calls("CreateProgram") = {}
                /\ Calls("LinkProgram") = {}
           /\ (shaderFailed /\ result.name = vert) =>
                /\ LoadedNames = <<vert>>
                /\ Cardinality(Calls("CreateShader")) =
                      IF result.status = "CompileError" THEN 1 ELSE 0
           /\ (shaderFailed /\ result.name = frag) =>
                /\ LoadedNames = <<vert, frag>>
                /\ Cardinality(Calls("CreateShader")) =
                      IF result.status = "CompileError" THEN 2 ELSE 1
           /\ result.status \in {"Ok", "LinkError"} =>
                /\ LoadedNames = <<vert, frag>>
                /\ Cardinality(Calls("CreateShader")) = 2
                /\ Cardinality(Calls("LinkProgram")) = 1
           /\ result.status = "LinkError" =>
                /\ result.name = args.name
                /\ linkStatus[result.obj] = "failed"
                /\ CStrAt(result.message) = result.log

\* C7 witness: the first shader failed to compile.
C7_Witness ==
    /\ result.op = "Program::from_res"
    /\ result.status = "CompileError"
    /\ result.name = args.name \o DOT_VERT

\* C7 witness for the link failure: a LinkError with a non-empty log.
C7_WitnessLinkError ==
    /\ result.op = "Program::from_res"
    /\ result.status = "LinkError"
    /\ result.log # <<>>

\* C8: no operation on a constructed Program (id, set_used, uniform_loc,
\* set_uniform1f) changes any Program's table or handle, or deletes or
\* creates a GPU object.
C8_TableImmutable ==
    [][args'.op \in {"Program::id", "Program::set_used",
                     "Program::uniform_loc", "Program::set_uniform1f"}
          => /\ programs' = programs
             /\ deleteCalls' = deleteCalls
             /\ objKind' = objKind]_vars

\* C8 witness: set_uniform1f was called with a name that is not in the
\* table of its Program.
C8_Witness ==
    /\ result.op = "Program::set_uniform1f"
    /\ args.target \in DOMAIN programs
    /\ args.name \notin DOMAIN programs[args.target]
    /\ programs[args.target] # EmptyTable

\* C9: the message of a failed compile or link is the driver's log, character
\* for character.
C9_ErrorIsLogVerbatim ==
    result.status \in {"Err", "CompileError", "LinkError"}
        => result.message = result.log

\* C10 as stated: from_shaders returns a Program only after a successful
\* link of at least two shaders.
C10_ProgramNeedsTwoShaders ==
    (result.op = "Program::from_shaders" /\ result.status = "Ok")
        => /\ linkStatus[result.obj] = "ok"
           /\ Len(args.ids) >= 2

\* C10 amended: from_shaders returns a Program exactly when the driver
\* reported link success for the program object it created, whatever the
\* number of shaders supplied; otherwise it returns an error and no Program
\* instance owns the object.  Every Program instance is a linked program.
C10_ProgramOnlyAfterLinkSuccess ==
    /\ \A p \in ProgramInstances :
          objKind[p] = "program" /\ linkStatus[p] = "ok"
    /\ result.op = "Program::from_shaders" =>
          /\ result.status \in {"Ok", "Err"}
          /\ (result.status = "Ok") <=> (linkStatus[result.obj] = "ok")
          /\ result.status = "Ok" =>
                result.id = result.obj /\ result.obj \in DOMAIN programs
          /\ result.status = "Err" => result.obj \notin ProgramInstances

\* C10 witness: from_shaders returned a Program for a single shader.
C10_Witness ==
    /\ result.op = "Program::from_shaders"
    /\ result.status = "Ok"
    /\ Len(args.ids) = 1


\* The shaders handed to from_shaders by the last operation: the slice
\* argument, or the shaders Program::from_res built.
Supplied ==
    IF result.op = "Program::from_shaders"
    THEN {args.ids[i] : i \in 1..Len(args.ids)}
    ELSE {trace[i].a : i \in Calls("CreateShader")}

\* Positions of the reflection queries in the last operation's trace.
ReflectionCalls ==
    Calls("GetProgramiv_ACTIVE_UNIFORMS") \cup Calls("GetActiveUniform")
        \cup Calls("GetUniformLocation")

\* C11: from_shaders creates the program, attaches every supplied shader,
\* links, and on link success detaches every supplied shader before the
\* first reflection query; a returned Program has no shader attached.
C11_AttachLinkDetachReflect ==
    /\ \A p \in DOMAIN programs : attached[p] = {}
    /\ (/\ result.op \in {"Program::from_shaders", "Program::from_res"}
        /\ Calls("LinkProgram") # {}) =>
          LET pid == result.obj
              create == Calls("CreateProgram")
              link == Calls("LinkProgram")
              att == Calls("AttachShader")
              det == Calls("DetachShader")
          IN /\ Cardinality(create) = 1 /\ Cardinality(link) = 1
             /\ \A i \in create \cup link \cup att \cup det : trace[i].a = pid
             /\ {trace[i].b : i \in att} = Supplied
             /\ Cardinality(att) = Cardinality(Supplied)
             /\ \A i \in att : \A c \in create, l \in link : c < i /\ i < l
             /\ result.status = "Ok" =>
                   /\ {trace[i].b : i \in det} = Supplied
                   /\ Cardinality(det) = Cardinality(Supplied)
                   /\ \A i \in det : \A l \in link : l < i
                   /\ Calls("GetProgramiv_ACTIVE_UNIFORMS") # {}
                   /\ \A i \in det : \A q \in ReflectionCalls : i < q
                   /\ attached[pid] = {}
             /\ result.status # "Ok" =>
                   /\ det = {}
                   /\ ReflectionCalls = {}

\* C11 witness: from_shaders returned a Program built from two shaders
\* whose uniforms were reflected.
C11_Witness ==
    /\ result.op = "Program::from_shaders"
    /\ result.status = "Ok"
    /\ Len(args.ids) = 2
    /\ Calls("GetActiveUniform") # {}


\* The last operation was set_uniform1f and its name is a key of the table
\* of the Program it was called on.
SetFoundEntry ==
    /\ result.op = "Program::set_uniform1f"
    /\ args.target \in DOMAIN programs
    /\ args.name \in DOMAIN programs[args.target]

\* The table entry the last set_uniform1f found.
FoundEntry == programs[args.target][args.name]

\* C12: set_uniform1f uploads if and only if the entry's declared type is
\* FLOAT: on a match its only driver call is one Uniform1f with the entry's
\* cached location and the value, on a mismatch it makes no driver call;
\* it never calls GetUniformLocation.
C12_UploadIffTypeMatches ==
    /\ result.op = "Program::set_uniform1f" =>
          Calls("GetUniformLocation") = {}
    /\ SetFoundEntry =>
          /\ (Calls("Uniform1f") # {}) <=> (FoundEntry.typ = FLOAT)
          /\ FoundEntry.typ = FLOAT =>
                trace = << [call |-> "Uniform1f", a |-> FoundEntry.id,
                            b |-> args.value, s |-> <<>>] >>
          /\ FoundEntry.typ # FLOAT => trace = <<>>

\* C12 witness: a float was uploaded to a uniform at a location the driver
\* assigned.
C12_Witness ==
    /\ SetFoundEntry
    /\ FoundEntry.typ = FLOAT
    /\ FoundEntry.id = 1
    /\ Calls("Uniform1f") # {}

\* C12 witness for the mismatch: set_uniform1f found a vec4 entry.
C12_WitnessMismatch ==
    /\ SetFoundEntry
    /\ FoundEntry.typ = FLOAT_VEC4

\* C13: a uniform the driver reports with location -1 does not fail
\* construction and is stored with location -1, and a type-matching
\* set_uniform1f on that entry returns success and uploads to location -1.
C13_MinusOneTolerated ==
    /\ \A p \in DOMAIN programs :
          \A i \in 1..Len(activeUniforms[p]) :
             activeUniforms[p][i].loc = -1 =>
                \E k \in DOMAIN programs[p] :
                   /\ CStrAt(k) = activeUniforms[p][i].name
                   /\ programs[p][k] = [id |-> -1,
                                         typ |-> activeUniforms[p][i].typ]
    /\ (result.op \in {"Program::from_shaders", "Program::from_res"}
        /\ result.obj \in Created
        /\ linkStatus[result.obj] = "ok"
        /\ objKind[result.obj] = "program") => result.status = "Ok"
    /\ (SetFoundEntry /\ FoundEntry.typ = FLOAT /\ FoundEntry.id = -1) =>
          /\ result.status = "Ok"
          /\ ~panicked
          /\ trace = << [call |-> "Uniform1f", a |-> -1, b |-> args.value,
                         s |-> <<>>] >>

\* C13 witness: set_uniform1f was called on the float uniform stored with
\* location -1.
C13_Witness ==
    /\ SetFoundEntry
    /\ FoundEntry.typ = FLOAT
    /\ FoundEntry.id = -1
    /\ CStrAt(args.name) = U_FADE


\* Positions of the driver calls that create and compile a shader.
ShaderBuildCalls ==
    Calls("CreateShader") \cup Calls("ShaderSource") \cup Calls("CompileShader")

\* C14: Shader::from_res detects the stage, then loads, then compiles, and
\* stops at the first failure: CanNotDetermineShaderTypeForResource without
\* a loader or driver call, ResourceLoad with the name and without a driver
\* call, CompileError with the name and the driver's message.
C14_FromResStopsAtFirstFailure ==
    result.op = "Shader::from_res" =>
        /\ result.status \in {"Ok", "CanNotDetermineShaderTypeForResource",
                              "ResourceLoad", "CompileError"}
        /\ result.status = "CanNotDetermineShaderTypeForResource" =>
              /\ trace = <<>>
        /\ result.status = "ResourceLoad" =>
              /\ trace = << [call |-> "load_cstring", a |-> 0, b |-> 0,
                             s |-> args.name] >>
              /\ result.name = args.name
        /\ result.status \in {"Ok", "CompileError"} =>
              /\ Calls("load_cstring") = {1}
              /\ trace[1].s = args.name
              /\ Cardinality(Calls("CreateShader")) = 1
              /\ \A i \in ShaderBuildCalls : i > 1
        /\ result.status = "CompileError" =>
              /\ result.name = args.name
              /\ linkStatus[result.obj] = "failed"
              /\ Calls("GetShaderInfoLog") # {}
              /\ CStrAt(result.message) = result.log
        /\ result.status # "Ok" => result.id = 0

\* C14 witness: the loader failed for a name with a known suffix.
C14_Witness ==
    /\ result.op = "Shader::from_res"
    /\ result.status = "ResourceLoad"
    /\ HasSuffix(args.name, DOT_FRAG)

\* The shaders the last operation created and compiled successfully.
BuiltShaders ==
    {trace[i].a : i \in {j \in Calls("CreateShader") :
                            linkStatus[trace[j].a] = "ok"}}

\* C15: when Program::from_res has returned, every Shader it built has been
\* deleted exactly once, every AttachShader and DetachShader of a shader
\* came before its DeleteShader, and a returned Program's handle has not
\* been deleted.
C15_FromResDropsItsShaders ==
    result.op = "Program::from_res" =>
        /\ \A sh \in BuiltShaders :
              LET del == {i \in Calls("DeleteShader") : trace[i].a = sh}
                  use == {i \in Calls("AttachShader") \cup Calls("DetachShader") :
                             trace[i].b = sh}
              IN /\ Cardinality(del) = 1
                 /\ deleteCalls[sh] = 1
                 /\ sh \in droppedShaders /\ sh \notin shaders
                 /\ \A d \in del, u \in use : u < d
        /\ {trace[i].a : i \in Calls("DeleteShader")} = BuiltShaders
        /\ Calls("DeleteProgram") = {}
        /\ result.status = "Ok" =>
              /\ result.id \in DOMAIN programs
              /\ deleteCalls[result.id] = 0
              /\ Cardinality(BuiltShaders) = 2

\* C15 witness: Program::from_res returned a Program.
C15_Witness ==
    /\ result.op = "Program::from_res"
    /\ result.status = "Ok"
    /\ Cardinality(Calls("DeleteShader")) = 2

\* C15 witness for the early return: the second shader failed after the
\* first was built.
C15_WitnessSecondFails ==
    /\ result.op = "Program::from_res"
    /\ result.status \in {"ResourceLoad", "CompileError"}
    /\ Cardinality(BuiltShaders) = 1

====
